---- MODULE Spec2Model ----
(***************************************************************************)
(* cilantro::KMeans (include/cilantro/kmeans.hpp): Lloyd's k-means with    *)
(* random or explicit seeding, brute-force or kd-tree assignment, repair   *)
(* of empty clusters, and a final materialization of per-cluster buckets.  *)
(*                                                                         *)
(* Vectors are 0-based functions, as the C++ containers are.  Scalars are  *)
(* exact rationals [num, den]; den = 0 stands for a non-finite value       *)
(* (the result of multiplying by 1.0/0).                                   *)
(***************************************************************************)
EXTENDS Integers, Sequences, FiniteSets, TLC

\* ------------------------------------------------------------- bounds
MaxN == 3
MaxK == 3
MaxIter == 2
MaxNFair == 2

\* KMeans2D, the instantiation modelled: EigenDim
Dim == 2
\* value standing for a size_t that was never written
Uninitialized == -1

\* ------------------------------------------------------------- vectors
Dims == 1..Dim
ZeroVec == [d \in Dims |-> 0]
VAdd(a, b) == [d \in Dims |-> a[d] + b[d]]
VSub(a, b) == [d \in Dims |-> a[d] - b[d]]
VScale(a, s) == [d \in Dims |-> a[d] * s]

RECURSIVE SumTo(_, _)
SumTo(f, n) == IF n = 0 THEN 0 ELSE f[n] + SumTo(f, n - 1)

squaredNorm(a) == SumTo([d \in Dims |-> a[d] * a[d]], Dim)

Size(v) == Cardinality(DOMAIN v)
EmptyVec == [i \in {} |-> 0]

\* a column of a matrix of rationals: the vector num scaled by 1/den
Col(v) == [num |-> v, den |-> 1]

\* (c - p).squaredNorm() for a rational column c and an input point p
SqDist(c, p) ==
    IF c.den = 0 THEN [num |-> 1, den |-> 0]
    ELSE [num |-> squaredNorm(VSub(c.num, VScale(p, c.den))), den |-> c.den * c.den]

Infinity == [num |-> 1, den |-> 0]
MinusOne == [num |-> 0 - 1, den |-> 1]

\* IEEE a < b: false when a is not finite; b is finite or +infinity
ScalarLess(a, b) ==
    /\ a.den # 0
    /\ \/ b.den = 0
       \/ a.num * b.den < b.num * a.den

\* ------------------------------------------------------------- state
VARIABLES
    data_map_,                \* the point set, 0-based
    cluster_centroids_,       \* 0-based vector of rational columns
    cluster_point_indices_,   \* 0-based vector of sequences of point indices
    cluster_index_map_,       \* 0-based vector of cluster indices
    iteration_count_,
    overload,                 \* which cluster() was called: "count" | "centroids"
    num_clusters_arg,         \* the num_clusters argument, or the columns passed
    centroids_arg,            \* the centroids argument (empty for a count)
    max_iter, tol, use_kd_tree,
    range, prev_size, init_i, \* locals of cluster(size_t, ...)
    assignments_unchanged,
    assigned,                 \* iterations of the parallel assignment loop done
    centroids_old,
    point_count,
    rep_i,                    \* index of the repair loop
    max_ind, old_centroid,
    extr_dist, extr_dist_ind, \* shared in the farthest-point scan
    scanned,                  \* iterations of the parallel scan done
    passes,                   \* loop bodies entered in this call
    index_map_at_entry,       \* cluster_index_map_ as the loop of this call found it
    index_map_before_pass,    \* cluster_index_map_ as the pass under way found it
    repaired,                 \* clusters the repair of this loop body has filled
    calls,                    \* calls of cluster() made on this object
    calls_left,               \* calls of cluster() still to be made
    outcome,                  \* "none" | "returned" | "undefined"
    pc

params == <<overload, num_clusters_arg, centroids_arg, max_iter, tol, use_kd_tree>>
initLocals == <<range, prev_size, init_i>>
assignLocals == <<assignments_unchanged, assigned>>
repairLocals == <<rep_i, max_ind, old_centroid, extr_dist, extr_dist_ind, scanned>>
history == <<index_map_at_entry, index_map_before_pass, repaired>>
vars == <<data_map_, cluster_centroids_, cluster_point_indices_, cluster_index_map_,
          iteration_count_, params, initLocals, assignLocals, centroids_old,
          point_count, repairLocals, passes, history, calls, calls_left, outcome, pc>>

num_points == Size(data_map_)
getNumberOfClusters == Size(cluster_centroids_)

\* the values the input points, and the columns of an explicit centroid set,
\* are drawn from
PointVals == {<<0, 0>>, <<10, 10>>, <<0, 4>>}
CentroidVals == {<<0, 0>>, <<10, 10>>}
PointSets == UNION {[0..(n - 1) -> PointVals] : n \in 0..MaxN}
CentroidSets == UNION {[0..(k - 1) -> {Col(p) : p \in CentroidVals}] : k \in 0..MaxK}

\* ------------------------------------------------------------- construction
Constructed(points, ncalls) ==
    /\ data_map_ \in points
    /\ cluster_centroids_ = EmptyVec
    /\ cluster_point_indices_ = EmptyVec
    /\ cluster_index_map_ = EmptyVec
    /\ iteration_count_ = 0
    /\ overload = "none"
    /\ num_clusters_arg = 0
    /\ centroids_arg = EmptyVec
    /\ max_iter = 0
    /\ tol = 0
    /\ use_kd_tree = FALSE
    /\ range = EmptyVec
    /\ prev_size = 0
    /\ init_i = 0
    /\ assignments_unchanged = TRUE
    /\ assigned = {}
    /\ centroids_old = EmptyVec
    /\ point_count = EmptyVec
    /\ rep_i = 0
    /\ max_ind = 0
    /\ old_centroid = Col(ZeroVec)
    /\ extr_dist = MinusOne
    /\ extr_dist_ind = Uninitialized
    /\ scanned = {}
    /\ passes = 0
    /\ index_map_at_entry = EmptyVec
    /\ index_map_before_pass = EmptyVec
    /\ repaired = {}
    /\ calls = 0
    /\ calls_left = ncalls
    /\ outcome = "none"
    /\ pc = "idle"

\* A new object on which cluster() is called once.
Init == Constructed(PointSets, 1)

\* ------------------------------------------------------------- cluster(...)
\* std::vector::resize: keeps the elements present, value-initializes the rest
Resize(v, n, fill) == [i \in 0..(n - 1) |-> IF i \in DOMAIN v THEN v[i] ELSE fill]

ClampKAlwaysCols(num_clusters, cols) == cols

\* the column count the requested cluster count is resized to
ClampK(num_clusters, cols) == IF num_clusters > cols THEN cols ELSE num_clusters

SwapSkipped(v, a, b) == v

\* std::swap(v[a], v[b])
Swap(v, a, b) == [v EXCEPT ![a] = v[b], ![b] = v[a]]

\* head of cluster_: locals, resize of the index map, iteration_count_ = 0
ClusterEntry ==
    /\ cluster_index_map_' = Resize(cluster_index_map_, num_points, 0)
    /\ iteration_count_' = 0
    /\ centroids_old' = EmptyVec
    /\ extr_dist_ind' = Uninitialized
    /\ passes' = 0
    /\ outcome' = "none"
    /\ pc' = "loop"
    /\ index_map_at_entry' = Resize(cluster_index_map_, num_points, 0)
    /\ UNCHANGED <<index_map_before_pass, repaired>>

\* cluster(centroids, max_iter, tol, use_kd_tree)
ClusterCentroids(centroids, mi, t, kd) ==
    /\ pc = "idle"
    /\ calls_left > 0
    /\ calls' = calls + 1
    /\ calls_left' = calls_left - 1
    /\ overload' = "centroids"
    /\ num_clusters_arg' = Size(centroids)
    /\ centroids_arg' = centroids
    /\ max_iter' = mi
    /\ tol' = t
    /\ use_kd_tree' = kd
    /\ cluster_centroids_' = centroids
    /\ ClusterEntry
    /\ UNCHANGED <<data_map_, cluster_point_indices_, initLocals, assignLocals,
                   point_count, rep_i, max_ind, old_centroid, extr_dist, scanned>>

\* cluster(num_clusters, max_iter, tol, use_kd_tree) up to the selection loop;
\* the resized columns hold no meaningful value until the loop writes them
ClusterNum(num_clusters, mi, t, kd) ==
    /\ pc = "idle"
    /\ calls_left > 0
    /\ calls' = calls + 1
    /\ calls_left' = calls_left - 1
    /\ overload' = "count"
    /\ num_clusters_arg' = num_clusters
    /\ centroids_arg' = EmptyVec
    /\ max_iter' = mi
    /\ tol' = t
    /\ use_kd_tree' = kd
    /\ cluster_centroids_' =
           Resize(cluster_centroids_, ClampK(num_clusters, num_points), Col(ZeroVec))
    /\ range' = [i \in 0..(num_points - 1) |-> i]
    /\ prev_size' = num_points
    /\ init_i' = 0
    /\ outcome' = "none"
    /\ pc' = "pick"
    /\ UNCHANGED <<data_map_, cluster_point_indices_, cluster_index_map_,
                   iteration_count_, assignLocals, centroids_old, point_count,
                   repairLocals, passes>>
    /\ UNCHANGED history

\* one round of the selection loop with rand_ind = dist(rng) % prev_size
InitPick(rand_ind) ==
    /\ pc = "pick"
    /\ init_i < getNumberOfClusters
    /\ rand_ind < prev_size
    /\ cluster_centroids_' =
           [cluster_centroids_ EXCEPT ![init_i] = Col(data_map_[range[rand_ind]])]
    /\ prev_size' = prev_size - 1
    /\ range' = Swap(range, rand_ind, prev_size - 1)
    /\ init_i' = init_i + 1
    /\ UNCHANGED <<data_map_, cluster_point_indices_, cluster_index_map_,
                   iteration_count_, params, assignLocals, centroids_old,
                   point_count, repairLocals, passes, calls, calls_left, outcome, pc>>
    /\ UNCHANGED history

\* the selection loop ends and cluster_ is entered; range, prev_size and i are
\* not used again
InitDone ==
    /\ pc = "pick"
    /\ init_i >= getNumberOfClusters
    /\ range' = EmptyVec
    /\ prev_size' = 0
    /\ init_i' = 0
    /\ ClusterEntry
    /\ UNCHANGED <<data_map_, cluster_centroids_, cluster_point_indices_, params,
                   assignLocals, point_count, rep_i, max_ind, old_centroid,
                   extr_dist, scanned, calls, calls_left>>

\* ------------------------------------------------------------- cluster_: assignment
LoopConditionInclusive(count, mi) == count <= mi

\* while (iteration_count_ < max_iter)
LoopCondition(count, mi) == count < mi

\* the loop body is entered: it starts with the flag set
LoopEnter ==
    /\ pc = "loop"
    /\ LoopCondition(iteration_count_, max_iter)
    /\ assignments_unchanged' = TRUE
    /\ assigned' = {}
    /\ passes' = passes + 1
    /\ pc' = "assign"
    /\ UNCHANGED <<data_map_, cluster_centroids_, cluster_point_indices_,
                   cluster_index_map_, iteration_count_, params, initLocals,
                   centroids_old, point_count, repairLocals, calls, calls_left, outcome>>
    /\ index_map_before_pass' = cluster_index_map_
    /\ UNCHANGED <<index_map_at_entry, repaired>>

LoopExit ==
    /\ pc = "loop"
    /\ ~LoopCondition(iteration_count_, max_iter)
    /\ pc' = "materialize"
    /\ UNCHANGED <<data_map_, cluster_centroids_, cluster_point_indices_,
                   cluster_index_map_, iteration_count_, params, initLocals,
                   assignLocals, centroids_old, point_count, repairLocals, passes,
                   calls, calls_left, outcome>>
    /\ UNCHANGED history

\* the scan over the clusters of one point: the thread's private extr_dist
\* starts at infinity and its private extr_dist_ind starts unwritten
\* The scan with <= for <: among equal distances the last cluster wins.
RECURSIVE NearestScanLast(_, _, _, _, _)
NearestScanLast(centroids, p, j, ed, ei) ==
    IF j = Size(centroids) THEN ei
    ELSE LET dist == SqDist(centroids[j], p)
         IN  IF ~ScalarLess(ed, dist)
             THEN NearestScanLast(centroids, p, j + 1, dist, j)
             ELSE NearestScanLast(centroids, p, j + 1, ed, ei)

RECURSIVE NearestScan(_, _, _, _, _)
NearestScan(centroids, p, j, ed, ei) ==
    IF j = Size(centroids) THEN ei
    ELSE LET dist == SqDist(centroids[j], p)
         IN  IF ScalarLess(dist, ed)
             THEN NearestScan(centroids, p, j + 1, dist, j)
             ELSE NearestScan(centroids, p, j + 1, ed, ei)

NearestCentroid(centroids, p) == NearestScan(centroids, p, 0, Infinity, Uninitialized)

\* tree.kNNSearch(p, 1, neighbors, distances): the indices neighbors[0] may hold,
\* any centroid at minimal finite distance; empty when the search finds none
kNNSearch(centroids, p) ==
    {j \in DOMAIN centroids :
        /\ centroids[j].den # 0
        /\ \A k \in DOMAIN centroids :
               ~ScalarLess(SqDist(centroids[k], p), SqDist(centroids[j], p))}

\* the write of one point's assignment and of the shared flag
StoreAssignment(i, ind) ==
    /\ assignments_unchanged' = (assignments_unchanged /\ cluster_index_map_[i] = ind)
    /\ cluster_index_map_' = [cluster_index_map_ EXCEPT ![i] = ind]
    /\ assigned' = assigned \cup {i}
    /\ UNCHANGED <<outcome, pc>>

\* an index that was never written is used: the behaviour is undefined
Undefined ==
    /\ outcome' = "undefined"
    /\ pc' = "halt"

\* iteration i of the parallel brute-force loop
AssignBrute(i) ==
    /\ pc = "assign"
    /\ ~use_kd_tree
    /\ i \in DOMAIN data_map_ \ assigned
    /\ LET ind == NearestCentroid(cluster_centroids_, data_map_[i])
       IN  IF ind = Uninitialized
           THEN Undefined /\ UNCHANGED <<cluster_index_map_, assignLocals>>
           ELSE StoreAssignment(i, ind)
    /\ UNCHANGED <<data_map_, cluster_centroids_, cluster_point_indices_,
                   iteration_count_, params, initLocals, centroids_old,
                   point_count, repairLocals, passes, calls, calls_left>>
    /\ UNCHANGED history

\* iteration i of the parallel kd-tree loop
AssignKdTree(i) ==
    /\ pc = "assign"
    /\ use_kd_tree
    /\ i \in DOMAIN data_map_ \ assigned
    /\ LET neighbors == kNNSearch(cluster_centroids_, data_map_[i])
       IN  IF neighbors = {}
           THEN Undefined /\ UNCHANGED <<cluster_index_map_, assignLocals>>
           ELSE \E ind \in neighbors : StoreAssignment(i, ind)
    /\ UNCHANGED <<data_map_, cluster_centroids_, cluster_point_indices_,
                   iteration_count_, params, initLocals, centroids_old,
                   point_count, repairLocals, passes, calls, calls_left>>
    /\ UNCHANGED history

BreakUnchangedAfterZero ==
    /\ pc = "assign"
    /\ assigned = DOMAIN data_map_
    /\ assignments_unchanged
    /\ assigned' = {}
    /\ cluster_centroids_' = [k \in DOMAIN cluster_centroids_ |-> Col(ZeroVec)]
    /\ pc' = "materialize"
    /\ UNCHANGED <<data_map_, cluster_point_indices_, cluster_index_map_,
                   iteration_count_, params, initLocals, assignments_unchanged,
                   centroids_old, point_count, repairLocals, passes, calls,
                   calls_left, outcome>>
    /\ index_map_before_pass' = EmptyVec
    /\ UNCHANGED <<index_map_at_entry, repaired>>

\* if (assignments_unchanged) break;
BreakUnchanged ==
    /\ pc = "assign"
    /\ assigned = DOMAIN data_map_
    /\ assignments_unchanged
    /\ assigned' = {}
    /\ pc' = "materialize"
    /\ UNCHANGED <<data_map_, cluster_centroids_, cluster_point_indices_,
                   cluster_index_map_, iteration_count_, params, initLocals,
                   assignments_unchanged, centroids_old, point_count, repairLocals,
                   passes, calls, calls_left, outcome>>
    /\ index_map_before_pass' = EmptyVec
    /\ UNCHANGED <<index_map_at_entry, repaired>>

\* ------------------------------------------------------------- cluster_: centroids
\* the accumulation loop over the points, from index i on
RECURSIVE Accumulate(_, _, _, _, _)
Accumulate(data, map, i, sums, counts) ==
    IF i = Size(data) THEN [sums |-> sums, counts |-> counts]
    ELSE Accumulate(data, map, i + 1,
                    [sums EXCEPT ![map[i]] = Col(VAdd(@.num, data[i]))],
                    [counts EXCEPT ![map[i]] = @ + 1])

\* if (tol > 0.0) centroids_old = ...; setZero; point_count(num_clusters, 0); sums
UpdateCentroids ==
    /\ pc = "assign"
    /\ assigned = DOMAIN data_map_
    /\ ~assignments_unchanged
    /\ centroids_old' = IF tol > 0 THEN cluster_centroids_ ELSE centroids_old
    /\ LET acc == Accumulate(data_map_, cluster_index_map_, 0,
                             [k \in DOMAIN cluster_centroids_ |-> Col(ZeroVec)],
                             [k \in DOMAIN cluster_centroids_ |-> 0])
       IN  /\ cluster_centroids_' = acc.sums
           /\ point_count' = acc.counts
    /\ rep_i' = 0
    /\ assigned' = {}
    /\ pc' = "repair"
    /\ UNCHANGED <<data_map_, cluster_point_indices_, cluster_index_map_,
                   iteration_count_, params, initLocals, assignments_unchanged,
                   max_ind, old_centroid, extr_dist, extr_dist_ind, scanned, passes,
                   calls, calls_left, outcome>>
    /\ index_map_before_pass' = EmptyVec
    /\ repaired' = {}
    /\ UNCHANGED index_map_at_entry

\* if (point_count[i] != 0) continue;
RepairSkip ==
    /\ pc = "repair"
    /\ rep_i < getNumberOfClusters
    /\ point_count[rep_i] # 0
    /\ rep_i' = rep_i + 1
    /\ UNCHANGED <<data_map_, cluster_centroids_, cluster_point_indices_,
                   cluster_index_map_, iteration_count_, params, initLocals,
                   assignLocals, centroids_old, point_count, max_ind, old_centroid,
                   extr_dist, extr_dist_ind, scanned, passes, calls, calls_left, outcome, pc>>
    /\ UNCHANGED history

\* the scan for the largest cluster, from index j on
\* The scan with the comparison turned round: it ends on a smallest cluster.
RECURSIVE LargestScanSmallest(_, _, _)
LargestScanSmallest(counts, j, m) ==
    IF j >= Size(counts) THEN m
    ELSE LargestScanSmallest(counts, j + 1, IF counts[j] < counts[m] THEN j ELSE m)

RECURSIVE LargestScan(_, _, _)
LargestScan(counts, j, m) ==
    IF j >= Size(counts) THEN m
    ELSE LargestScan(counts, j + 1, IF counts[j] > counts[m] THEN j ELSE m)

LargestCluster(counts) == LargestScan(counts, 1, 0)

\* an empty cluster is found: largest cluster, its mean, extr_dist = -1.0
RepairFind ==
    /\ pc = "repair"
    /\ rep_i < getNumberOfClusters
    /\ point_count[rep_i] = 0
    /\ LET m == LargestCluster(point_count)
       IN  /\ max_ind' = m
           /\ old_centroid' = [num |-> cluster_centroids_[m].num, den |-> point_count[m]]
    /\ extr_dist' = MinusOne
    /\ scanned' = {}
    /\ pc' = "scan"
    /\ UNCHANGED <<data_map_, cluster_centroids_, cluster_point_indices_,
                   cluster_index_map_, iteration_count_, params, initLocals,
                   assignLocals, centroids_old, point_count, rep_i, extr_dist_ind,
                   passes, calls, calls_left, outcome>>
    /\ UNCHANGED history

CriticalUpdateUnguarded(cur, dist, j) == [dist |-> dist, ind |-> j]

\* the critical section: if (dist > extr_dist) { extr_dist = dist; extr_dist_ind = j; }
\* The critical section with the write of the index lost.
CriticalUpdateDistOnly(cur, dist, j) ==
    IF ScalarLess(cur.dist, dist) THEN [dist |-> dist, ind |-> cur.ind] ELSE cur

CriticalUpdate(cur, dist, j) ==
    IF ScalarLess(cur.dist, dist) THEN [dist |-> dist, ind |-> j] ELSE cur

\* iteration j of the parallel farthest-point scan
ScanPoint(j) ==
    /\ pc = "scan"
    /\ j \in DOMAIN data_map_ \ scanned
    /\ scanned' = scanned \cup {j}
    /\ LET upd == IF cluster_index_map_[j] = max_ind
                  THEN CriticalUpdate([dist |-> extr_dist, ind |-> extr_dist_ind],
                                      SqDist(old_centroid, data_map_[j]), j)
                  ELSE [dist |-> extr_dist, ind |-> extr_dist_ind]
       IN  /\ extr_dist' = upd.dist
           /\ extr_dist_ind' = upd.ind
    /\ UNCHANGED <<data_map_, cluster_centroids_, cluster_point_indices_,
                   cluster_index_map_, iteration_count_, params, initLocals,
                   assignLocals, centroids_old, point_count, rep_i, max_ind,
                   old_centroid, passes, calls, calls_left, outcome, pc>>
    /\ UNCHANGED history

\* the point found moves to the empty cluster; max_ind, old_centroid and
\* extr_dist are written again before their next use
MovePoint ==
    /\ pc = "scan"
    /\ scanned = DOMAIN data_map_
    /\ scanned' = {}
    /\ max_ind' = 0
    /\ old_centroid' = Col(ZeroVec)
    /\ extr_dist' = MinusOne
    /\ IF extr_dist_ind = Uninitialized
       THEN Undefined /\ UNCHANGED <<cluster_index_map_, cluster_centroids_,
                                     point_count, rep_i>>
       ELSE /\ cluster_index_map_' = [cluster_index_map_ EXCEPT ![extr_dist_ind] = rep_i]
            /\ cluster_centroids_' =
                   [cluster_centroids_ EXCEPT
                       ![max_ind] = Col(VSub(@.num, data_map_[extr_dist_ind]))]
            /\ point_count' = [[point_count EXCEPT ![max_ind] = @ - 1]
                                  EXCEPT ![rep_i] = @ + 1]
            /\ rep_i' = rep_i + 1
            /\ pc' = "repair"
            /\ UNCHANGED outcome
    /\ UNCHANGED <<data_map_, cluster_point_indices_, iteration_count_, params,
                   initLocals, assignLocals, centroids_old, extr_dist_ind, passes,
                   calls, calls_left>>
    /\ repaired' = IF extr_dist_ind = Uninitialized THEN repaired ELSE repaired \cup {rep_i}
    /\ UNCHANGED <<index_map_at_entry, index_map_before_pass>>

\* cluster_centroids_.col(i) *= 1.0/point_count[i]
Scaled(sums, counts) == [i \in DOMAIN sums |-> [num |-> sums[i].num, den |-> counts[i]]]

\* squared displacement of a column below tol_sq, both columns finite
ColumnBelow(new, old, tol_sq) ==
    squaredNorm(VSub(VScale(new.num, old.den), VScale(old.num, new.den)))
        < tol_sq * (new.den * old.den) * (new.den * old.den)

\* the values (new - old).colwise().squaredNorm().maxCoeff() < tol_sq may take:
\* a non-finite column either makes the comparison false or is passed over
Converged(new, old, t) ==
    LET finite == {i \in DOMAIN new : new[i].den # 0 /\ old[i].den # 0}
        below == \A i \in finite : ColumnBelow(new[i], old[i], t * t)
    IN  IF t > 0
        THEN IF finite = DOMAIN new THEN {below} ELSE {FALSE, below}
        ELSE {FALSE}

\* the final division, iteration_count_++, and the tolerance test; point_count
\* ends with the loop body
Divide ==
    /\ pc = "repair"
    /\ rep_i = getNumberOfClusters
    /\ LET new == Scaled(cluster_centroids_, point_count)
       IN  /\ cluster_centroids_' = new
           /\ \E stop \in Converged(new, centroids_old, tol) :
                  pc' = IF stop THEN "materialize" ELSE "loop"
    /\ iteration_count_' = iteration_count_ + 1
    /\ point_count' = EmptyVec
    /\ rep_i' = 0
    /\ UNCHANGED <<data_map_, cluster_point_indices_, cluster_index_map_, params,
                   initLocals, assignLocals, centroids_old, max_ind, old_centroid,
                   extr_dist, extr_dist_ind, scanned, passes, calls, calls_left, outcome>>
    /\ repaired' = {}
    /\ UNCHANGED <<index_map_at_entry, index_map_before_pass>>

\* ------------------------------------------------------------- cluster_: buckets
RECURSIVE FillBucketsSkipFirst(_, _, _)
FillBucketsSkipFirst(map, i, buckets) ==
    IF i >= Size(map) THEN buckets
    ELSE FillBucketsSkipFirst(map, i + 1,
             IF i = 0 THEN buckets ELSE [buckets EXCEPT ![map[i]] = Append(@, i)])

\* the emplace_back loop over the points, from index i on
RECURSIVE FillBuckets(_, _, _)
FillBuckets(map, i, buckets) ==
    IF i = Size(map) THEN buckets
    ELSE FillBuckets(map, i + 1, [buckets EXCEPT ![map[i]] = Append(@, i)])

\* resize(num_clusters) and the emplace_back loop; an index map entry that is no
\* bucket index makes the access out of bounds.  The locals of cluster_ end here
Materialize ==
    /\ pc = "materialize"
    /\ IF \E i \in DOMAIN cluster_index_map_ :
              cluster_index_map_[i] \notin DOMAIN cluster_centroids_
       THEN Undefined /\ UNCHANGED cluster_point_indices_
       ELSE /\ cluster_point_indices_' =
                   FillBuckets(cluster_index_map_, 0,
                               Resize(cluster_point_indices_, getNumberOfClusters, <<>>))
            /\ outcome' = "returned"
            /\ pc' = "idle"
    /\ centroids_old' = EmptyVec
    /\ extr_dist_ind' = Uninitialized
    /\ UNCHANGED <<data_map_, cluster_centroids_, cluster_index_map_,
                   iteration_count_, params, initLocals, assignLocals, point_count,
                   rep_i, max_ind, old_centroid, extr_dist, scanned, passes,
                   calls, calls_left>>
    /\ UNCHANGED history

\* ------------------------------------------------------------- specification
Tols == {0, 8}

Next ==
    \/ \E c \in CentroidSets, mi \in 0..MaxIter, t \in Tols, kd \in BOOLEAN :
           ClusterCentroids(c, mi, t, kd)
    \/ \E k \in 0..MaxK, mi \in 0..MaxIter, t \in Tols, kd \in BOOLEAN :
           ClusterNum(k, mi, t, kd)
    \/ \E r \in 0..MaxN : InitPick(r)
    \/ InitDone
    \/ LoopEnter
    \/ LoopExit
    \/ \E i \in 0..MaxN : AssignBrute(i)
    \/ \E i \in 0..MaxN : AssignKdTree(i)
    \/ BreakUnchanged
    \/ UpdateCentroids
    \/ RepairSkip
    \/ RepairFind
    \/ \E j \in 0..MaxN : ScanPoint(j)
    \/ MovePoint
    \/ Divide
    \/ Materialize

Spec == Init /\ [][Next]_vars

\* the objects over at most MaxNFair points
InitFair == Init /\ num_points <= MaxNFair

\* cluster() runs to its end without yielding: a step that can be taken is taken
FairSpec == InitFair /\ [][Next]_vars /\ WF_vars(Next)

\* ------------------------------------------------------------- properties
Returned == pc = "idle" /\ outcome = "returned"

\* the positions of the buckets, and how often a point index occurs in them
BucketSlots ==
    UNION {{<<k, pos>> : pos \in 1..Len(cluster_point_indices_[k])} :
               k \in DOMAIN cluster_point_indices_}

Occurrences(i) ==
    Cardinality({sl \in BucketSlots : cluster_point_indices_[sl[1]][sl[2]] = i})

BucketSizes == [k \in DOMAIN cluster_point_indices_ |-> Len(cluster_point_indices_[k])]

RECURSIVE SumFrom(_, _)
SumFrom(f, i) == IF i \notin DOMAIN f THEN 0 ELSE f[i] + SumFrom(f, i + 1)

\* C1: when cluster() returns on a new object with N >= 1 points and
\* 1 <= K <= N, every point index occurs exactly once in the K buckets and the
\* buckets hold nothing but point indices
PartitionInvariant ==
    (Returned /\ calls = 1 /\ num_points >= 1 /\ num_clusters_arg \in 1..num_points)
        => /\ Size(cluster_point_indices_) = num_clusters_arg
           /\ \A i \in DOMAIN data_map_ : Occurrences(i) = 1
           /\ \A sl \in BucketSlots :
                  cluster_point_indices_[sl[1]][sl[2]] \in DOMAIN data_map_

PartitionWitness ==
    /\ Returned /\ calls = 1 /\ num_points = 3 /\ num_clusters_arg = 2
    /\ iteration_count_ = 2
    /\ \A k \in DOMAIN cluster_point_indices_ : Len(cluster_point_indices_[k]) >= 1

\* the first assignment pass of a run with explicit centroids sends every
\* point to cluster 0
FirstPassAllToZero ==
    \A i \in DOMAIN data_map_ :
        IF use_kd_tree
        THEN kNNSearch(centroids_arg, data_map_[i]) = {0}
        ELSE NearestCentroid(centroids_arg, data_map_[i]) = 0

\* C2: a run with explicit centroids, 2 <= K <= N and max_iter >= 1 whose first
\* pass sends every point to cluster 0 ends with no bucket empty; for three
\* points (0,0) and centroids (0,0), (10,10) the bucket sizes are 2 and 1
EmptyClusterTrigger ==
    (/\ Returned /\ overload = "centroids" /\ max_iter >= 1
     /\ num_clusters_arg \in 2..num_points
     /\ FirstPassAllToZero)
        => /\ \A k \in DOMAIN BucketSizes : BucketSizes[k] >= 1
           /\ (/\ data_map_ = [i \in 0..2 |-> <<0, 0>>]
               /\ centroids_arg = [k \in 0..1 |-> Col(IF k = 0 THEN <<0, 0>> ELSE <<10, 10>>)]
               /\ max_iter = 1)
                  => {BucketSizes[k] : k \in DOMAIN BucketSizes} = {2, 1}

Min(a, b) == IF a < b THEN a ELSE b

\* C3: after cluster(K, ...) returns on a new object with N >= 1 and K >= 1 the
\* cluster count is min(K, N), there are that many buckets, and their sizes
\* sum to N
CountConsistency ==
    (Returned /\ calls = 1 /\ overload = "count" /\ num_points >= 1
              /\ num_clusters_arg >= 1)
        => /\ getNumberOfClusters = Min(num_clusters_arg, num_points)
           /\ Size(cluster_point_indices_) = getNumberOfClusters
           /\ SumFrom(BucketSizes, 0) = num_points

CountWitness ==
    /\ Returned /\ calls = 1 /\ overload = "count"
    /\ num_points = 2 /\ num_clusters_arg = 3 /\ getNumberOfClusters = 2
    /\ iteration_count_ >= 1

\* C4: the number of clusters never exceeds the number of points
ClustersNeverExceedPoints == getNumberOfClusters <= num_points

\* C5: cluster(K, ...) with K >= N >= 1 and max_iter >= 1 ends with N buckets
\* of one point each
ClampedToSingletons ==
    (Returned /\ calls = 1 /\ overload = "count" /\ num_points >= 1
              /\ num_clusters_arg >= num_points /\ max_iter >= 1)
        => /\ getNumberOfClusters = num_points
           /\ \A k \in DOMAIN BucketSizes : BucketSizes[k] = 1

\* C6: during the selection the index array is a permutation of 0..N-1, the
\* eligible range shrinks by one per pick, and centroid i is a copy of the
\* point whose index the i-th pick moved to the back (position N-1-i), so the
\* picks are pairwise distinct indices
InitializerDistinct ==
    pc = "pick"
        => /\ DOMAIN range = DOMAIN data_map_
           /\ {range[i] : i \in DOMAIN range} = DOMAIN data_map_
           /\ prev_size = num_points - init_i
           /\ init_i <= getNumberOfClusters
           /\ \A i \in 0..(init_i - 1) :
                  cluster_centroids_[i] = Col(data_map_[range[num_points - 1 - i]])

InitializerWitness ==
    /\ pc = "pick" /\ init_i = 3 /\ num_points = 3
    /\ range[2] = 1 /\ range[1] = 0 /\ range[0] = 2
    /\ Cardinality({data_map_[i] : i \in DOMAIN data_map_}) = 3

\* C7: a call whose cluster count is 0 ends in an InvalidArgument outcome
ZeroClustersRejected ==
    (/\ calls >= 1 /\ overload = "count"
     /\ ClampK(num_clusters_arg, num_points) = 0
     /\ pc \in {"idle", "halt"})
        => outcome = "InvalidArgument"

\* C8: the final division is reached only with every point count nonzero
NoZeroCountDivision ==
    (pc = "repair" /\ rep_i = getNumberOfClusters)
        => \A k \in DOMAIN point_count : point_count[k] # 0

InCluster == pc \in {"loop", "assign", "repair", "scan", "materialize"}

\* C9: a call with at least one cluster returns with the buckets built; the
\* iteration counter never exceeds max_iter, it changes only by the increment
\* that ends a centroid update (or the reset on entry), every centroid update
\* increments it, and no more than max_iter loop bodies are entered
TerminationBounded ==
    /\ [](InCluster => (iteration_count_ <= max_iter /\ passes <= max_iter))
    /\ [][(pc = "repair" /\ pc' \in {"loop", "materialize"})
              <=> (iteration_count_' = iteration_count_ + 1)]_vars
    /\ [][iteration_count_' # iteration_count_
              => iteration_count_' \in {0, iteration_count_ + 1}]_vars
    /\ (pc = "loop" /\ getNumberOfClusters >= 1) ~> Returned

TerminationWitness ==
    /\ Returned /\ iteration_count_ = 2 /\ max_iter = 2 /\ passes = 2
    /\ num_clusters_arg > num_points /\ overload = "centroids"
    /\ num_points = 2

\* ------------------------------------------------------------- index-order run
\* The run of cluster_ (brute force, tol = 0) in which the iterations of both
\* parallel loops execute in index order: one of the schedules a run can have.

\* the farthest-point scan in index order, from point j on
RECURSIVE SeqScan(_, _, _, _, _, _)
SeqScan(data, map, m, centre, j, cur) ==
    IF j = Size(data) THEN cur
    ELSE SeqScan(data, map, m, centre, j + 1,
                 IF map[j] = m THEN CriticalUpdate(cur, SqDist(centre, data[j]), j)
                 ELSE cur)

\* more than one point of cluster m lies at the maximal distance from centre
FarthestTie(data, map, m, centre) ==
    LET members == {j \in DOMAIN data : map[j] = m}
        farthest == {j \in members : \A k \in members :
                        ~ScalarLess(SqDist(centre, data[j]), SqDist(centre, data[k]))}
    IN  Cardinality(farthest) > 1

\* the repair loop from cluster i on; ind is the shared extr_dist_ind, tie records
\* whether a scan so far met a tie
RECURSIVE SeqRepair(_, _, _, _, _, _, _)
SeqRepair(data, map, sums, counts, i, ind, tie) ==
    IF i = Size(counts) THEN [map |-> map, sums |-> sums, counts |-> counts, tie |-> tie]
    ELSE IF counts[i] # 0 THEN SeqRepair(data, map, sums, counts, i + 1, ind, tie)
    ELSE LET m == LargestCluster(counts)
             centre == [num |-> sums[m].num, den |-> counts[m]]
             found == SeqScan(data, map, m, centre, 0, [dist |-> MinusOne, ind |-> ind])
         IN  SeqRepair(data,
                       [map EXCEPT ![found.ind] = i],
                       [sums EXCEPT ![m] = Col(VSub(@.num, data[found.ind]))],
                       [[counts EXCEPT ![m] = @ - 1] EXCEPT ![i] = @ + 1],
                       i + 1, found.ind,
                       tie \/ FarthestTie(data, map, m, centre))

\* the driver loop from iteration count on
RECURSIVE SeqRun(_, _, _, _, _, _)
SeqRun(data, centroids, map, count, mi, tie) ==
    IF ~LoopCondition(count, mi)
    THEN [map |-> map, centroids |-> centroids, count |-> count, tie |-> tie]
    ELSE LET new == [i \in DOMAIN data |-> NearestCentroid(centroids, data[i])]
         IN  IF new = map
             THEN [map |-> new, centroids |-> centroids, count |-> count, tie |-> tie]
             ELSE LET acc == Accumulate(data, new, 0,
                                        [k \in DOMAIN centroids |-> Col(ZeroVec)],
                                        [k \in DOMAIN centroids |-> 0])
                      rep == SeqRepair(data, new, acc.sums, acc.counts, 0,
                                       Uninitialized, tie)
                  IN  SeqRun(data, Scaled(rep.sums, rep.counts), rep.map,
                             count + 1, mi, rep.tie)

\* the index-order run of the call made on the new object
IndexOrderRun ==
    SeqRun(data_map_, centroids_arg, [i \in DOMAIN data_map_ |-> 0], 0, max_iter, FALSE)

\* a brute-force call with explicit centroids and tol = 0 has returned
ExplicitBruteReturned ==
    /\ Returned /\ calls = 1 /\ overload = "centroids" /\ num_clusters_arg >= 1
    /\ tol = 0 /\ ~use_kd_tree /\ num_points >= 1

\* C10 as stated: whatever the schedule, the run returns what the index-order
\* run of the same input returns, so any two runs of that input agree
DeterministicRuns ==
    ExplicitBruteReturned
        => /\ cluster_index_map_ = IndexOrderRun.map
           /\ cluster_centroids_ = IndexOrderRun.centroids

\* C10 amended: the same, for inputs on which no farthest-point scan meets two
\* points of the largest cluster at the same maximal distance
DeterministicRunsNoTie ==
    (ExplicitBruteReturned /\ ~IndexOrderRun.tie)
        => /\ cluster_index_map_ = IndexOrderRun.map
           /\ cluster_centroids_ = IndexOrderRun.centroids
           /\ iteration_count_ = IndexOrderRun.count

\* three points of one cluster with a single farthest one, which the repair moved
DeterministicWitness ==
    /\ ExplicitBruteReturned /\ ~IndexOrderRun.tie
    /\ data_map_ = [i \in 0..2 |-> IF i = 1 THEN <<0, 4>> ELSE <<0, 0>>]
    /\ centroids_arg = [k \in 0..1 |-> Col(IF k = 0 THEN <<10, 10>> ELSE <<0, 0>>)]
    /\ max_iter = 1
    /\ cluster_index_map_ = [i \in 0..2 |-> IF i = 1 THEN 0 ELSE 1]

\* ---------------------------------------------------------------------------
\* A reused object: cluster() is called MaxCallsReuse times in a row on the
\* same KMeans object, so that every call but the first finds the members the
\* previous call left behind.
MaxCallsReuse == 2

ReusePointSets == {p \in PointSets : Size(p) \in 1..MaxNFair}

InitReuse == Constructed(ReusePointSets, MaxCallsReuse)

SpecReuse == InitReuse /\ [][Next]_vars

\* C11: a pass that reports no change goes straight to the bucket
\* materialization: from the loop test before the pass, through the pass, the
\* break and the materialization, the centroids and the iteration counter keep
\* their values, and nothing but the end of the call follows the materialization
NoChangeLeavesCentroids ==
    /\ [][(pc \in {"loop", "materialize"} \/ (pc = "assign" /\ pc' # "repair"))
              => /\ cluster_centroids_' = cluster_centroids_
                 /\ iteration_count_' = iteration_count_]_vars
    /\ [][(pc = "assign" /\ assigned = DOMAIN data_map_ /\ assignments_unchanged)
              => pc' = "materialize"]_vars
    /\ [][pc = "materialize" => pc' \in {"idle", "halt"}]_vars

\* the second pass of a call found nothing changed
NoChangeWitness ==
    /\ pc = "materialize" /\ assignments_unchanged
    /\ iteration_count_ = 1 /\ passes = 2 /\ max_iter = 2
    /\ num_points = 3 /\ getNumberOfClusters = 2

\* C12: with max_iter = 0, N >= 1 and 1 <= K <= N the call returns with
\* iteration count 0 and the initial centroids, and, no pass having written the
\* index map, the buckets hold nothing taken from it
MaxIterZeroDefined ==
    (Returned /\ max_iter = 0 /\ num_points >= 1 /\ num_clusters_arg \in 1..num_points)
        => /\ iteration_count_ = 0
           /\ overload = "centroids" => cluster_centroids_ = centroids_arg
           /\ passes = 0 => BucketSlots = {}

\* The points the index map assigns to cluster k.
Members(map, k) == {i \in DOMAIN map : map[i] = k}

\* bucket lists exactly the indices of S, in ascending order, each once.
AscendingListOf(bucket, S) ==
    /\ {bucket[a] : a \in 1..Len(bucket)} = S
    /\ \A a, b \in 1..Len(bucket) : a < b => bucket[a] < bucket[b]

\* C13: when the last of a sequence of cluster() calls on one object returns,
\* there are getNumberOfClusters() buckets and bucket k is the ascending list
\* of the indices i with getClusterIndexMap()[i] = k, each once; nothing of an
\* earlier call remains.
BucketsRebuiltEveryCall ==
    (Returned /\ calls_left = 0)
        => /\ Size(cluster_point_indices_) = getNumberOfClusters
           /\ \A k \in DOMAIN cluster_point_indices_ :
                  AscendingListOf(cluster_point_indices_[k], Members(cluster_index_map_, k))

\* The sum of the points the index map assigns to cluster k, from index i on.
RECURSIVE MemberSum(_, _, _, _)
MemberSum(data, map, k, i) ==
    IF i \notin DOMAIN data THEN ZeroVec
    ELSE LET rest == MemberSum(data, map, k, i + 1)
         IN  IF map[i] = k THEN VAdd(data[i], rest) ELSE rest

\* The centroid c is the arithmetic mean of the members of cluster k.
IsMeanOfMembers(c, data, map, k) ==
    /\ Members(map, k) # {}
    /\ c.den # 0
    /\ VScale(c.num, Cardinality(Members(map, k))) = VScale(MemberSum(data, map, k, 0), c.den)

\* C14: at the end of every completed iteration (the repair is over and the
\* sums have been divided by the counts), for 1 <= K <= N, every centroid is
\* the arithmetic mean of the points the index map assigns to its cluster.
CentroidIsMeanOfMembers ==
    [][(pc = "repair" /\ rep_i = getNumberOfClusters /\ getNumberOfClusters \in 1..num_points)
          => \A k \in DOMAIN cluster_centroids_' :
                 IsMeanOfMembers(cluster_centroids_'[k], data_map_', cluster_index_map_', k)]_vars

\* C15: in a run with 1 <= K <= N, when a cluster is found empty the largest
\* cluster chosen as donor holds at least 2 points and is not a cluster the
\* repair filled earlier in the same pass; the clusters the repair loop has
\* gone past all hold at least 1 point, so that when it has processed all
\* clusters every point count is >= 1.
RepairRestoresCounts ==
    getNumberOfClusters \in 1..num_points
        => /\ pc = "scan" => /\ point_count[max_ind] >= 2
                             /\ max_ind \notin repaired
                             /\ point_count[rep_i] = 0
           /\ pc \in {"repair", "scan"} =>
                  \A k \in DOMAIN point_count : k < rep_i => point_count[k] >= 1
           /\ \A k \in repaired : k < rep_i /\ point_count[k] = 1

RepairWitness ==
    /\ pc = "repair" /\ rep_i = getNumberOfClusters
    /\ getNumberOfClusters = 3 /\ num_points = 3
    /\ Cardinality(repaired) = 2

\* The donor points the farthest-point scan has visited so far.
ScannedDonors == {j \in scanned : cluster_index_map_[j] = max_ind}

\* C16: under every interleaving of the parallel farthest-point scan the
\* shared pair (extr_dist, extr_dist_ind) is updated as one step: after every
\* step it names a visited point of the largest cluster together with that
\* point's distance to the cluster's mean before the repair, and no visited
\* point of that cluster is strictly farther; when the scan ends this holds
\* for all points of the cluster.
FarthestNoLostUpdate ==
    /\ [](pc = "scan" =>
              IF ScannedDonors = {} THEN extr_dist = MinusOne
              ELSE /\ extr_dist_ind \in ScannedDonors
                   /\ extr_dist = SqDist(old_centroid, data_map_[extr_dist_ind])
                   /\ \A j \in ScannedDonors :
                          ~ScalarLess(extr_dist, SqDist(old_centroid, data_map_[j])))
    /\ [](pc = "scan" /\ scanned = DOMAIN data_map_ =>
              ScannedDonors = Members(cluster_index_map_, max_ind) /\ ScannedDonors # {})
    /\ [][(pc = "scan" /\ pc' = "scan") =>
              \/ UNCHANGED <<extr_dist, extr_dist_ind>>
              \/ /\ extr_dist_ind' \in scanned' \ scanned
                 /\ ScalarLess(extr_dist, extr_dist')]_vars

FarthestWitness ==
    /\ pc = "scan" /\ scanned = DOMAIN data_map_
    /\ Cardinality(ScannedDonors) = 3
    /\ extr_dist_ind = 1
    /\ \E j \in ScannedDonors : ScalarLess(SqDist(old_centroid, data_map_[j]), extr_dist)

\* the index-order run of the call from the index map the loop really found
EntryOrderRun ==
    SeqRun(data_map_, centroids_arg, index_map_at_entry, 0, max_iter, FALSE)

\* C17: for the same points, explicit initial centroids, max_iter >= 1, tol
\* and the brute-force path, the final index map, the final centroids and the
\* iteration count do not depend on what the index map holds when the loop
\* starts: a call on a reused object returns what the call on a new object
\* (index map all zeros) returns.  Inputs with a farthest-point tie, whose
\* result depends on the schedule, are left out.
OutcomeIgnoresEntryMap ==
    (/\ Returned /\ overload = "centroids" /\ num_clusters_arg \in 1..num_points
     /\ max_iter >= 1 /\ tol = 0 /\ ~use_kd_tree
     /\ ~IndexOrderRun.tie /\ ~EntryOrderRun.tie)
        => /\ cluster_index_map_ = IndexOrderRun.map
           /\ cluster_centroids_ = IndexOrderRun.centroids
           /\ iteration_count_ = IndexOrderRun.count

\* C18: after the accumulation and after every single repair, the point count
\* of every cluster is the number of points the index map assigns to it and
\* the counts sum to N; a repair changes exactly one entry of the index map,
\* that of the moved point, from the donor to the empty cluster, and leaves
\* the donor's running sum equal to the sum of the points still assigned to it.
RepairBookkeeping ==
    /\ [](pc \in {"repair", "scan"} =>
              /\ DOMAIN point_count = DOMAIN cluster_centroids_
              /\ \A k \in DOMAIN point_count :
                     point_count[k] = Cardinality(Members(cluster_index_map_, k))
              /\ SumFrom(point_count, 0) = num_points)
    /\ [][(pc = "scan" /\ pc' = "repair") =>
              /\ \E i \in DOMAIN cluster_index_map_ :
                     /\ cluster_index_map_[i] = max_ind
                     /\ cluster_index_map_' = [cluster_index_map_ EXCEPT ![i] = rep_i]
                     /\ max_ind # rep_i
              /\ cluster_centroids_'[max_ind].num =
                     MemberSum(data_map_, cluster_index_map_', max_ind, 0)]_vars

\* j is the smallest cluster index whose centroid is at minimal distance from p.
IsLowestArgmin(centroids, p, j) ==
    /\ j \in DOMAIN centroids
    /\ \A j2 \in DOMAIN centroids :
           /\ j2 < j => ScalarLess(SqDist(centroids[j], p), SqDist(centroids[j2], p))
           /\ j2 > j => ~ScalarLess(SqDist(centroids[j2], p), SqDist(centroids[j], p))

\* C19: in a brute-force assignment pass with K >= 1, under every interleaving
\* of the per-point work, every entry of the index map is written once, by
\* the step of its point, with the smallest cluster index at minimal distance;
\* the entries not yet written hold their value from before the pass; and the
\* pass reports a change exactly when a written entry differs from its value
\* before the pass.  The pass ends only when every point has been assigned.
BruteForceLowestArgmin ==
    /\ [](pc = "assign" /\ ~use_kd_tree /\ getNumberOfClusters >= 1 =>
              /\ \A i \in assigned :
                     IsLowestArgmin(cluster_centroids_, data_map_[i], cluster_index_map_[i])
              /\ \A i \in DOMAIN data_map_ \ assigned :
                     cluster_index_map_[i] = index_map_before_pass[i]
              /\ assignments_unchanged <=>
                     \A i \in assigned : cluster_index_map_[i] = index_map_before_pass[i])
    /\ [][(pc = "assign" /\ pc' = "assign" /\ ~use_kd_tree) =>
              \E i \in DOMAIN data_map_ \ assigned :
                  /\ assigned' = assigned \cup {i}
                  /\ \A j \in DOMAIN data_map_ \ {i} :
                         cluster_index_map_'[j] = cluster_index_map_[j]]_vars
    /\ [][(pc = "assign" /\ pc' \notin {"assign", "halt"}) =>
              assigned = DOMAIN data_map_]_vars

BruteForceWitness ==
    /\ pc = "assign" /\ ~use_kd_tree /\ assigned = DOMAIN data_map_
    /\ num_points = 3 /\ getNumberOfClusters = 3
    /\ ~assignments_unchanged
    /\ \E i \in assigned : cluster_index_map_[i] = index_map_before_pass[i]
    /\ \E i \in assigned : \E j \in DOMAIN cluster_centroids_ :
           /\ j > cluster_index_map_[i]
           /\ SqDist(cluster_centroids_[j], data_map_[i]) =
                  SqDist(cluster_centroids_[cluster_index_map_[i]], data_map_[i])

====
